---- MODULE Spec2Model ----
(***************************************************************************)
(* A model of ruka_trends_mvp.py (fetch -> weekly table -> KPI ->          *)
(* recommendations -> one-pager -> publish) and of update_sheet.py         *)
(* (df_to_sheet).                                                          *)
(*                                                                         *)
(* Conventions                                                             *)
(*   - a nullable number (pandas NaN / pd.NA) is a set: {} is null, {v} is *)
(*     the number v;                                                       *)
(*   - text that the code inspects character by character (a term, a       *)
(*     formatted number) is a sequence of one-character strings;           *)
(*   - KPI numbers are kept exactly, in units of 1/120 (a mean of 1..4     *)
(*     integers times 0.3 or 0.7 is a whole number of such units);         *)
(*   - a date is a day number, day 0 being a Monday.                       *)
(***************************************************************************)
EXTENDS Integers, Sequences, FiniteSets, TLC

VARIABLES
    \* ---- main() of ruka_trends_mvp.py
    pc,          \* position of main()
    terms_df,    \* the term catalog (load_terms)
    kp_csv,      \* args.kp_csv: "None" or the planner CSV's rows
    env,         \* which of GOOGLE_SA_JSON / SHEET_NAME / SHEET_ID are set
    trendreq,    \* TRUE iff pytrends could be imported (TrendReq is not None)
    mi,          \* fetch_trends: index of the market group being fetched
    ci,          \* fetch_trends: i of range(0, len(terms), 5)
    results,     \* fetch_trends: the list of reshaped chunk tables
    batches,     \* log of the chunks attempted: [market, i, kw_batch, outcome, rows]
    weekly,      \* the table fetch_trends returned
    out_csv,     \* the file written by weekly.to_csv: "absent" or [header, rows]
    recs,        \* the recommendation table
    recs_failed, \* build_recommendations raised (caught in main)
    one,         \* the one-pager table
    publog,      \* log of the _maybe_sheet_update calls: [worksheet, outcome, rows, csv]
    \* ---- _calc_growth_feats on its own
    kpi_weekly, kpi_out,
    \* ---- _channel_rules on its own
    rule_row, rule_out,
    \* ---- build_recommendations / build_one_pager on their own
    feats, top_n, rec_out, top_ops, rpc,
    \* ---- df_to_sheet, two runs against one spreadsheet
    sheet, run

mainVars == <<pc, terms_df, kp_csv, env, trendreq, mi, ci, results, batches,
              weekly, out_csv, recs, recs_failed, one, publog>>
kpiVars == <<kpi_weekly, kpi_out>>
ruleVars == <<rule_row, rule_out>>
recVars == <<feats, top_n, rec_out, top_ops, rpc>>
sheetVars == <<sheet, run>>
vars == <<mainVars, kpiVars, ruleVars, recVars, sheetVars>>

(***************************************************************************)
(* Bounds of the model.                                                    *)
(***************************************************************************)
\* most terms one market has in a catalog of the main run
MaxTerms == 6
\* weeks 1..MaxWeek may carry data in the KPI check
MaxWeek == 9
\* most rows of a KPI table handed to build_recommendations
MaxFeats == 6
\* most data rows of a table published by df_to_sheet
MaxSheetRows == 2

(***************************************************************************)
(* Constants of the program.                                               *)
(***************************************************************************)
\* range(0, len(terms), 5): at most 5 keywords per request
ChunkSize == 5
\* build_recommendations(weekly, terms_df, top_n_per_market=5) in main
TopNPerMarket == 5
\* .head(5) of the one-pager's top opportunities
TopOpsCount == 5
\* .head(5) of the one-pager's watchouts
WatchCount == 5
\* pd.Timedelta(days=28) and pd.Timedelta(days=56)
Days28 == 28
Days56 == 56

(***************************************************************************)
(* Generic helpers.                                                        *)
(***************************************************************************)
NA == {}
Some(v) == {v}
IsNA(x) == x = {}
Val(x) == CHOOSE v \in x : TRUE

Min2(a, b) == IF a < b THEN a ELSE b

RECURSIVE SumSeq(_)
SumSeq(s) == IF s = <<>> THEN 0 ELSE Head(s) + SumSeq(Tail(s))

RECURSIVE Concat(_)
Concat(ss) == IF ss = <<>> THEN <<>> ELSE Head(ss) \o Concat(Tail(ss))

Range(s) == {s[i] : i \in 1..Len(s)}

\* s restricted to the entries satisfying Keep, order kept
SelectIdx(s, Keep(_)) ==
    LET idx == {i \in 1..Len(s) : Keep(s[i])}
        nth(k) == CHOOSE i \in idx : Cardinality({j \in idx : j < i}) = k - 1
    IN [k \in 1..Cardinality(idx) |-> s[nth(k)]]

\* a stable sort of s by the strict order Less (equal keys keep their order)
StableSort(s, Less(_, _)) ==
    LET n == Len(s)
        pos == [i \in 1..n |->
                   Cardinality({j \in 1..n :
                       Less(s[j], s[i]) \/ (~Less(s[i], s[j]) /\ j < i)}) + 1]
    IN [k \in 1..n |-> s[CHOOSE i \in 1..n : pos[i] = k]]

\* the elements of the set S as a sequence ordered by the strict total order Less
SortSet(S, Less(_, _)) ==
    LET rank == [x \in S |-> Cardinality({y \in S : Less(y, x)})]
    IN [k \in 1..Cardinality(S) |-> CHOOSE x \in S : rank[x] = k - 1]

\* DataFrame.head(n)
HeadN(s, n) == SubSeq(s, 1, Min2(n, Len(s)))

(***************************************************************************)
(* Text: characters in code point order, str.lower, `in`, comparison.      *)
(***************************************************************************)
CharOrder == <<" ", "-", ".", "0", "1", "2", "3", "4", "5", "6", "7", "8", "9",
               "E", "F", "G", "H", "I", "K", "L", "R", "T", "Y",
               "a", "e", "f", "g", "h", "i", "k", "l", "m", "n", "o", "r", "s", "t",
               "u", "y", "Ü", "ü">>
Ord(c) == CHOOSE i \in 1..Len(CharOrder) : CharOrder[i] = c

LowerChar(c) ==
    CASE c = "E" -> "e" [] c = "F" -> "f" [] c = "G" -> "g" [] c = "H" -> "h" [] c = "I" -> "i"
      [] c = "K" -> "k" [] c = "L" -> "l" [] c = "R" -> "r" [] c = "T" -> "t"
      [] c = "Y" -> "y" [] c = "Ü" -> "ü" [] OTHER -> c
Lower(s) == [i \in 1..Len(s) |-> LowerChar(s[i])]

\* Python's `kw in s` for strings
Contains(s, kw) ==
    \E i \in 0..(Len(s) - Len(kw)) : SubSeq(s, i + 1, i + Len(kw)) = kw

\* a < b for strings, by code points: decided at the first position where they
\* differ, a proper prefix being the smaller
TextLess(a, b) ==
    LET d == {k \in 1..Min2(Len(a), Len(b)) : a[k] # b[k]}
    IN IF d = {} THEN Len(a) < Len(b)
       ELSE LET k == CHOOSE x \in d : \A y \in d : x <= y
            IN Ord(a[k]) < Ord(b[k])

\* market and language codes, in code point order
CodeOrder == <<"DE", "FI", "GB", "NO", "SE", "de", "en", "fi", "no", "sv">>
CodeRank(c) == CHOOSE i \in 1..Len(CodeOrder) : CodeOrder[i] = c
CodeLess(a, b) == CodeRank(a) < CodeRank(b)

DigitChars == <<"0", "1", "2", "3", "4", "5", "6", "7", "8", "9">>
DigitChar(d) == DigitChars[d + 1]
IsDigitOrDot(c) == c = "." \/ c \in Range(DigitChars)
DigitVal(c) == (CHOOSE i \in 1..10 : DigitChars[i] = c) - 1

RECURSIVE SumOver(_, _)
\* the sum of f[i] over the finite set idx
SumOver(idx, f) ==
    IF idx = {} THEN 0
    ELSE LET i == CHOOSE j \in idx : TRUE IN f[i] + SumOver(idx \ {i}, f)

RECURSIVE Digits(_)
\* the decimal digits of n >= 0
Digits(n) == IF n < 10 THEN <<DigitChar(n)>>
             ELSE Digits(n \div 10) \o <<DigitChar(n % 10)>>

RECURSIVE ParseInt(_)
ParseInt(cs) == IF cs = <<>> THEN 0
                ELSE 10 * ParseInt(SubSeq(cs, 1, Len(cs) - 1)) + DigitVal(cs[Len(cs)])

Abs(x) == IF x < 0 THEN 0 - x ELSE x

(***************************************************************************)
(* The term catalog and the weekly table.                                  *)
(***************************************************************************)
\* the columns of the weekly table, in the order fetch_trends returns them
WeeklyColumns == <<"week_start", "market", "language", "term", "source",
                   "trend_index_0_100", "avg_monthly_searches", "cpc_eur",
                   "competition_index">>

\* row key of the KPI steps: (market, language, term)
SameKey(a, b) == a.market = b.market /\ a.language = b.language /\ a.term = b.term

\* weekly.merge(terms_df[["market","language","term","intent"]], how="left"):
\* every weekly row once per catalog entry of its key, intent null without one
MergeIntentLeft(w, terms) ==
    LET matches(r) == SelectIdx(terms, LAMBDA t : SameKey(t, r))
        expand(r) == IF matches(r) = <<>>
                     THEN <<[r EXCEPT !.intent = NA]>>
                     ELSE [k \in 1..Len(matches(r)) |->
                              [r EXCEPT !.intent = Some(matches(r)[k].intent)]]
    IN Concat([i \in 1..Len(w) |-> expand(w[i])])

(***************************************************************************)
(* _calc_growth_feats.  Numbers of a KPI row are in units of 1/120.        *)
(***************************************************************************)
\* df.sort_values(["market","term","week_start"])
KpiRowLess(a, b) ==
    IF a.market # b.market THEN CodeLess(a.market, b.market)
    ELSE IF a.term # b.term THEN TextLess(a.term, b.term)
    ELSE a.week_start < b.week_start

\* df["week_start"].max()
LatestWeek(df) ==
    CHOOSE d \in {df[i].week_start : i \in 1..Len(df)} :
        \A i \in 1..Len(df) : df[i].week_start <= d

\* last4_mask: week_start > latest_week - 28 days
Last4Mask(r, latest_week) == r.week_start > latest_week - Days28

\* prev4_mask: latest_week - 56 days < week_start <= latest_week - 28 days
Prev4Mask(r, latest_week) ==
    /\ r.week_start <= latest_week - Days28
    /\ r.week_start > latest_week - Days56

\* df[mask].groupby(key).agg(mean), left-merged onto the row r: the mean of the
\* non-null values of r's key inside the window, null when there is none
WindowMean(df, r, Mask(_)) ==
    LET idx == {i \in 1..Len(df) :
                   SameKey(df[i], r) /\ Mask(df[i]) /\ ~IsNA(df[i].trend)}
    IN IF idx = {} THEN NA
       ELSE Some((120 * SumOver(idx, [i \in idx |-> Val(df[i].trend)]))
                     \div Cardinality(idx))

\* (last4 - prev4) where either operand may be null
NullableDiff(a, b) == IF IsNA(a) \/ IsNA(b) THEN NA ELSE Some(Val(a) - Val(b))

\* Series.fillna(0)
FillNa0(x) == IF IsNA(x) THEN 0 ELSE Val(x)

\* a plausible slip: the operands, not the difference, are filled with 0
GrowthVsPrev4_FillOperands(last4, prev4) == FillNa0(last4) - FillNa0(prev4)

\* out["growth_vs_prev4"] = (out["last4"] - out["prev4"]).fillna(0)
GrowthVsPrev4(last4, prev4) == FillNa0(NullableDiff(last4, prev4))

\* out["score"] = out["latest"].fillna(0)*0.7 + out["growth_vs_prev4"]*0.3
ScoreOf(latest, growth) == (7 * FillNa0(latest) + 3 * growth) \div 10

\* the KPI rows of a table df already sorted by market, term, week_start
FeatsOfSorted(df) ==
    LET latest_week == LatestWeek(df)
        df_last == SelectIdx(df, LAMBDA r : r.week_start = latest_week)
        feat(r) ==
            LET latest == IF IsNA(r.trend) THEN NA ELSE Some(120 * Val(r.trend))
                last4 == WindowMean(df, r, LAMBDA x : Last4Mask(x, latest_week))
                prev4 == WindowMean(df, r, LAMBDA x : Prev4Mask(x, latest_week))
                growth == GrowthVsPrev4(last4, prev4)
            IN [market |-> r.market, language |-> r.language, term |-> r.term,
                intent |-> r.intent, latest |-> latest, last4 |-> last4,
                prev4 |-> prev4, growth_vs_prev4 |-> growth,
                score |-> ScoreOf(latest, growth), week_start |-> latest_week]
    IN [i \in 1..Len(df_last) |-> feat(df_last[i])]

CalcGrowthFeats(w) ==
    IF w = <<>> THEN <<>>
    ELSE CHOOSE out \in {FeatsOfSorted(df) : df \in {StableSort(w, KpiRowLess)}} : TRUE

(***************************************************************************)
(* _channel_rules.                                                         *)
(***************************************************************************)
KwFlight == <<"f", "l", "i", "g", "h", "t">>
KwLento == <<"l", "e", "n", "t", "o">>
KwFluege == <<"f", "l", "ü", "g", "e">>
KwFlyg == <<"f", "l", "y", "g">>

TestChannel == "Pinterest (test)"
TestMarkets == {"GB", "DE"}

\* the default: lines 146-149
DefaultSet ==
    [funnel |-> "Mid → Lower",
     channels |-> <<"Google Search (Exact/PH)", "Meta (Prospecting/RT)">>,
     audience |-> "Travel intenders; site visitors; lookalikes",
     budget |-> "60% Search, 30% Meta, 10% Test"]

FlightSet ==
    [funnel |-> "Lower (intent) + Mid (consideration)",
     channels |-> <<"Google Search (Exact/BMM)", "Meta (Video/Traffic)",
                    "Performance Max (test)">>,
     audience |-> "City O&D lookups (LON/STO/MUC), airline engagers, remarketing",
     budget |-> "70% Search, 20% Meta, 10% PMax"]

BrandSet ==
    [funnel |-> "Lower (brand/generic) + Mid",
     channels |-> <<"Google Search (Brand/Generic)", "Meta (RT/Catalogue)",
                    "YouTube Shorts (test)">>,
     audience |-> "Brand engagers; cart/room viewers; lookalikes",
     budget |-> "65% Search, 25% Meta, 10% YouTube"]

SocialSet ==
    [funnel |-> "Upper → Mid",
     channels |-> <<"Meta (Reels/Stories)", "TikTok (Spark Ads)", "Google Discovery">>,
     audience |-> "Families; winter sports; northern lights; interest stacks",
     budget |-> "20% Search, 60% Social, 20% Discovery"]

\* row.get("intent","") if it is a str, else ""  (a null intent is not a str)
IntentOf(row) == IF IsNA(row.intent) THEN "" ELSE Val(row.intent)

\* "flight" in term or "lento" in term or "flüge" in term or "flyg" in term
HasFlightKeyword(term) ==
    \/ Contains(term, KwFlight) \/ Contains(term, KwLento)
    \/ Contains(term, KwFluege) \/ Contains(term, KwFlyg)

Rule2(term, intent, cur) ==
    IF HasFlightKeyword(term) \/ intent = "flights" THEN FlightSet ELSE cur

Rule3(intent, cur) ==
    IF intent \in {"accommodation", "brand"} THEN BrandSet ELSE cur

Rule4(intent, cur) ==
    IF intent \in {"family", "seasonal", "activity"} THEN SocialSet ELSE cur

\* list(dict.fromkeys(xs)): the first occurrence of every entry, order kept
DictFromKeys(xs) ==
    LET idx == {i \in 1..Len(xs) : \A j \in 1..(i - 1) : xs[j] # xs[i]}
        nth(k) == CHOOSE i \in idx : Cardinality({j \in idx : j < i}) = k - 1
    IN [k \in 1..Cardinality(idx) |-> xs[nth(k)]]

\* a plausible slip: the test channel is put in front, without de-duplication
Rule5_Prepend(market, cur) ==
    IF market \in TestMarkets
    THEN [cur EXCEPT !.channels = <<TestChannel>> \o cur.channels \o <<TestChannel>>]
    ELSE cur

Rule5(market, cur) ==
    IF market \in TestMarkets
    THEN [cur EXCEPT !.channels = DictFromKeys(cur.channels \o <<TestChannel>>)]
    ELSE cur

\* a plausible slip: the brand rule applied after the social rule, and the
\* flight rule last
ChannelRules_Reordered(row) ==
    LET term == Lower(row.term)
        intent == IntentOf(row)
    IN Rule5(row.market, Rule2(term, intent, Rule3(intent, Rule4(intent, DefaultSet))))

\* the tuple (funnel, channels, audience, budget) of _channel_rules; the code
\* returns the channel list joined by ", " (no entry contains ", ")
ChannelRules(row) ==
    LET term == Lower(row.term)
        intent == IntentOf(row)
    IN Rule5(row.market, Rule4(intent, Rule3(intent, Rule2(term, intent, DefaultSet))))

(***************************************************************************)
(* build_recommendations.                                                  *)
(***************************************************************************)
\* round(x, 1) of x given in 1/120: tenths, halves to even
Round1(x) ==
    LET q == x \div 12
        r == x % 12
    IN IF r < 6 THEN q
       ELSE IF r > 6 THEN q + 1
       ELSE IF q % 2 = 0 THEN q ELSE q + 1

\* str(round(x, 1)) of a float: "48.0", "-6.0", "-0.0", "nan"
FormatRounded(x) ==
    IF IsNA(x) THEN <<"n", "a", "n">>
    ELSE LET t == Abs(Round1(Val(x)))
         IN (IF Val(x) < 0 THEN <<"-">> ELSE <<>>)
                \o Digits(t \div 10) \o <<".">> \o <<DigitChar(t % 10)>>

\* a plausible slip: ascending scores
FeatLess_Ascending(a, b) ==
    \/ CodeLess(a.market, b.market)
    \/ a.market = b.market /\ a.score < b.score

\* feats.sort_values(["market","score"], ascending=[True, False])
FeatLess(a, b) ==
    \/ CodeLess(a.market, b.market)
    \/ a.market = b.market /\ a.score > b.score

\* .groupby("market").head(n): the first n rows of every market, order kept
HeadPerMarket(s, n) ==
    LET idx == {i \in 1..Len(s) :
                   Cardinality({j \in 1..(i - 1) : s[j].market = s[i].market}) < n}
        nth(k) == CHOOSE i \in idx : Cardinality({j \in idx : j < i}) = k - 1
    IN [k \in 1..Cardinality(idx) |-> s[nth(k)]]

\* the rows selected from a KPI table
SelectRecs(f, n) == HeadPerMarket(StableSort(f, FeatLess), n)

\* one recommendation row; why_now is kept as its three formatted numbers
RecRow(r) ==
    LET rules == ChannelRules(r)
    IN [market |-> r.market, language |-> r.language, term |-> r.term,
        intent |-> r.intent, funnel |-> rules.funnel,
        suggested_channels |-> rules.channels, audience_hint |-> rules.audience,
        budget_split |-> rules.budget,
        why_now |-> [latest |-> FormatRounded(r.latest),
                     d4w |-> FormatRounded(Some(r.growth_vs_prev4)),
                     score |-> FormatRounded(Some(r.score))]]

RecsOfFeats(f, n) ==
    LET sel == SelectRecs(f, n) IN [i \in 1..Len(sel) |-> RecRow(sel[i])]

BuildRecommendations(w, terms, n) == RecsOfFeats(CalcGrowthFeats(MergeIntentLeft(w, terms)), n)

(***************************************************************************)
(* build_one_pager.                                                        *)
(***************************************************************************)
\* float("48.0") in tenths: the digits before the first dot, and the first
\* digit after it
ParseTenths(m) ==
    LET dot == CHOOSE k \in 1..(Len(m) + 1) :
                 /\ \A i \in 1..(k - 1) : m[i] # "."
                 /\ k = Len(m) + 1 \/ m[k] = "."
    IN 10 * ParseInt(SubSeq(m, 1, dot - 1))
          + (IF dot < Len(m) THEN DigitVal(m[dot + 1]) ELSE 0)

\* recs["why_now"].str.extract(r"score=([\d\.]+)").astype(float): the digits and
\* dots that follow "score=" at once, in tenths; null when there are none
ExtractScore(why) ==
    LET cs == why.score
        n == CHOOSE k \in 0..Len(cs) :
                 /\ \A i \in 1..k : IsDigitOrDot(cs[i])
                 /\ k = Len(cs) \/ ~IsDigitOrDot(cs[k + 1])
    IN IF n = 0 THEN NA ELSE Some(ParseTenths(SubSeq(cs, 1, n)))

\* sort_values("score", ascending=False): numbers descending, nulls last in
\* their original order (tables this small are sorted by insertion: stable)
TopOpsLess(a, b) ==
    \/ ~IsNA(a.score) /\ IsNA(b.score)
    \/ ~IsNA(a.score) /\ ~IsNA(b.score) /\ Val(a.score) > Val(b.score)

TopOpportunities(r) ==
    HeadN(StableSort([i \in 1..Len(r) |->
                         [market |-> r[i].market, term |-> r[i].term,
                          why_now |-> r[i].why_now, idx |-> i,
                          score |-> ExtractScore(r[i].why_now)]],
                     TopOpsLess), TopOpsCount)

\* the thresholds of the watchouts: latest < 15, growth_vs_prev4 < -5
WatchLatestBelow == 15
WatchGrowthBelow == -5

\* recs[["market","language","term","intent"]].drop_duplicates()
RecKeys(r) ==
    DictFromKeys([i \in 1..Len(r) |->
        [market |-> r[i].market, language |-> r[i].language, term |-> r[i].term,
         intent |-> r[i].intent]])

\* weekly.merge(keys, on=["market","language","term"], how="right"): for every
\* key in turn its weekly rows, carrying the key's intent (every key of a
\* recommendation row has weekly rows: it was selected from them)
MergeKeysRight(w, keys) ==
    Concat([k \in 1..Len(keys) |->
        LET m == SelectIdx(w, LAMBDA r : SameKey(r, keys[k]))
        IN [i \in 1..Len(m) |-> [m[i] EXCEPT !.intent = keys[k].intent]]])

\* sort_values(["latest"]): ascending, nulls last
WatchLess(a, b) ==
    \/ ~IsNA(a.latest) /\ IsNA(b.latest)
    \/ ~IsNA(a.latest) /\ ~IsNA(b.latest) /\ Val(a.latest) < Val(b.latest)

\* feats[(feats["latest"] < 15) | (feats["growth_vs_prev4"] < -5)]
IsWatchout(f) ==
    \/ ~IsNA(f.latest) /\ Val(f.latest) < 120 * WatchLatestBelow
    \/ f.growth_vs_prev4 < 120 * WatchGrowthBelow

Watchouts(w, r) ==
    LET f == CalcGrowthFeats(MergeKeysRight(w, RecKeys(r)))
        sel == HeadN(StableSort(SelectIdx(f, IsWatchout), WatchLess), WatchCount)
    IN [i \in 1..Len(sel) |->
           [market |-> sel[i].market, term |-> sel[i].term,
            latest |-> FormatRounded(sel[i].latest),
            d4w |-> FormatRounded(Some(sel[i].growth_vs_prev4))]]

\* the five rows of the one-pager; the content of a section is kept as the list
\* the code joins with "; ", the week as the day number the code prints as a date
BuildOnePager(w, r) ==
    LET tops == TopOpportunities(r)
    IN << [section |-> "Top opportunities",
           content |-> [i \in 1..Len(tops) |->
                           [market |-> tops[i].market, term |-> tops[i].term,
                            why_now |-> tops[i].why_now]]],
          [section |-> "Watchouts", content |-> Watchouts(w, r)],
          [section |-> "Creative hooks", content |-> "hooks"],
          [section |-> "Next actions", content |-> "actions"],
          [section |-> "week", content |-> LatestWeek(w)] >>

\* the fallback of main when there are no recommendations
NoteTable_Empty == <<>>

\* lines 268-270
NoteTable ==
    << [section |-> "Note", content |-> "No recommendations generated this run."] >>

(***************************************************************************)
(* fetch_trends.                                                           *)
(***************************************************************************)
\* df_terms.groupby("market"): the markets in ascending order
MarketGroups(terms) ==
    SortSet({terms[i].market : i \in 1..Len(terms)}, CodeLess)

\* group["term"].tolist()
TermsOfMarket(terms, m) ==
    LET g == SelectIdx(terms, LAMBDA t : t.market = m)
    IN [i \in 1..Len(g) |-> g[i].term]

\* terms[i : i + 5]
KwBatch(ts, i) == SubSeq(ts, i + 1, Min2(i + ChunkSize, Len(ts)))

\* every (market, i) the two loops of fetch_trends visit, in order
AllChunks(terms) ==
    LET gs == MarketGroups(terms)
    IN Concat([g \in 1..Len(gs) |->
           LET n == Len(TermsOfMarket(terms, gs[g]))
           IN [c \in 1..((n + ChunkSize - 1) \div ChunkSize) |->
                  [market |-> gs[g], i |-> (c - 1) * ChunkSize]]])

\* df.melt(id_vars=["date","market"], var_name="term", ...): one row per keyword
\* column and date, the columns in turn
Melt(market, kw_batch, resp) ==
    Concat([k \in 1..Len(kw_batch) |->
        [d \in 1..Len(resp.dates) |->
            [date |-> resp.dates[d], market |-> market, term |-> kw_batch[k],
             trend |-> resp.value[k][d]]]])

\* all_trends.merge(df_terms[["market","term","language","intent"]],
\* on=["market","term"], how="left")
MergeMetaLeft(rows, terms) ==
    Concat([i \in 1..Len(rows) |->
        LET m == SelectIdx(terms, LAMBDA t : t.market = rows[i].market
                                              /\ t.term = rows[i].term)
        IN IF m = <<>>
           THEN << [date |-> rows[i].date, market |-> rows[i].market,
                    term |-> rows[i].term, trend |-> rows[i].trend,
                    language |-> NA, intent |-> NA] >>
           ELSE [k \in 1..Len(m) |->
                    [date |-> rows[i].date, market |-> rows[i].market,
                     term |-> rows[i].term, trend |-> rows[i].trend,
                     language |-> Some(m[k].language),
                     intent |-> Some(m[k].intent)]]])

\* date - weekday: the Monday on or before the date
WeekStart(date) == date - (date % 7)

\* groupby(["week_start","market","language","term"]) order of the keys
WeeklyKeyLess(a, b) ==
    IF a.week_start # b.week_start THEN a.week_start < b.week_start
    ELSE IF a.market # b.market THEN CodeLess(a.market, b.market)
    ELSE IF a.language # b.language THEN CodeLess(a.language, b.language)
    ELSE TextLess(a.term, b.term)

\* .sort_values(["week_start","market","term"])
WeeklyRowLess(a, b) ==
    IF a.week_start # b.week_start THEN a.week_start < b.week_start
    ELSE IF a.market # b.market THEN CodeLess(a.market, b.market)
    ELSE TextLess(a.term, b.term)

\* lines 84-111 (a weekly row also carries an `intent` slot, null until a later
\* merge fills it; it is no column of the table): concat, merge the meta, week_start, weekly mean (rows with a
\* null language fall out of the groupby), sort, the planner columns all null.
\* The mean is a whole number here: the catalogs hold every (market, term)
\* once and a response holds one point per week.
WeeklyOf(res, terms) ==
    LET all == MergeMetaLeft(Concat(res), terms)
        keyed == SelectIdx(all, LAMBDA r : ~IsNA(r.language))
        key(r) == [week_start |-> WeekStart(r.date), market |-> r.market,
                   language |-> Val(r.language), term |-> r.term]
        keys == SortSet({key(keyed[i]) : i \in 1..Len(keyed)}, WeeklyKeyLess)
        mean(k) == LET idx == {i \in 1..Len(keyed) :
                                  key(keyed[i]) = k /\ ~IsNA(keyed[i].trend)}
                   IN IF idx = {} THEN NA
                      ELSE Some(SumOver(idx, [i \in idx |-> Val(keyed[i].trend)])
                                   \div Cardinality(idx))
        grouped == [i \in 1..Len(keys) |->
                       [week_start |-> keys[i].week_start, market |-> keys[i].market,
                        language |-> keys[i].language, term |-> keys[i].term,
                        source |-> "GoogleTrends", trend |-> mean(keys[i]),
                        avg_monthly_searches |-> NA, cpc_eur |-> NA,
                        competition_index |-> NA, intent |-> NA]]
    IN StableSort(grouped, WeeklyRowLess)

\* the return value of fetch_trends
FetchResult(res, terms) == IF res = <<>> THEN <<>> ELSE WeeklyOf(res, terms)

(***************************************************************************)
(* The inputs of a run of main().                                          *)
(***************************************************************************)
TermBases == << <<"l", "e", "n", "t", "o", " ">>,
                <<"r", "u", "k", "a", " ">>,
                <<"R", "u", "k", "a", " ", "F", "l", "y", "g", " ">>,
                <<"h", "o", "t", "e", "l", " ">> >>
IntentCycle == <<"flights", "accommodation", "family", "brand", "generic">>

\* the k-th term of a market's part of a catalog
TermText(k) == TermBases[(k % Len(TermBases)) + 1] \o Digits(k)
TermRecord(market, language, k) ==
    [market |-> market, language |-> language,
     intent |-> IntentCycle[(k % Len(IntentCycle)) + 1], term |-> TermText(k)]

\* how many terms a market may have: none, one, a full chunk, more than a chunk
\* (the second market never more than one chunk, to keep the runs short)
TermCounts == {0, 1, ChunkSize, MaxTerms}
TermCountsDE == {0, 1, ChunkSize}

Catalog(nFI, nDE) ==
    [k \in 1..nFI |-> TermRecord("FI", "fi", k)]
        \o [k \in 1..nDE |-> TermRecord("DE", "de", k)]
Catalogs == {Catalog(a, b) : a \in TermCounts, b \in TermCountsDE}

\* what a successful request returns: one weekly point (a Sunday) per keyword
FetchPoints == {[date |-> 6, base |-> 0], [date |-> 13, base |-> 50]}
Response(kw_batch, p) ==
    [dates |-> <<p.date>>,
     value |-> [k \in 1..Len(kw_batch) |-> <<Some(p.base + 10 * (k - 1))>>]]

\* args.kp_csv: absent, or a planner CSV (its rows: term, optional market, and
\* the three metrics, each nullable)
PlannerCsv ==
    << [term |-> TermText(1), market |-> NA, avg_monthly_searches |-> Some(1000),
        cpc_eur |-> NA, competition_index |-> Some(40)] >>
KpArgs == {[given |-> FALSE, rows |-> <<>>], [given |-> TRUE, rows |-> PlannerCsv]}

Envs == [sa_json : BOOLEAN, sheet_name : BOOLEAN, sheet_id : BOOLEAN]

(***************************************************************************)
(* main().                                                                 *)
(***************************************************************************)
IdleKpi == kpi_weekly = <<>> /\ kpi_out = <<>>
IdleRule == rule_row = <<>> /\ rule_out = <<>>
IdleRec == feats = <<>> /\ top_n = 0 /\ rec_out = <<>> /\ top_ops = <<>> /\ rpc = "idle"
IdleSheet == sheet = <<>> /\ run = <<>>
IdleMain ==
    /\ pc = "idle" /\ terms_df = <<>> /\ kp_csv = <<>> /\ env = <<>>
    /\ trendreq = FALSE /\ mi = 0 /\ ci = 0 /\ results = <<>> /\ batches = <<>>
    /\ weekly = <<>> /\ out_csv = <<>> /\ recs = <<>> /\ recs_failed = FALSE
    /\ one = <<>> /\ publog = <<>>

InitMain ==
    /\ pc = "fetch_trends"
    /\ terms_df \in Catalogs
    /\ kp_csv \in KpArgs
    /\ env \in Envs
    /\ trendreq \in BOOLEAN
    /\ mi = 0 /\ ci = 0 /\ results = <<>> /\ batches = <<>>
    /\ weekly = <<>>
    /\ out_csv = [written |-> FALSE, header |-> <<>>, rows |-> <<>>]
    /\ recs = <<>> /\ recs_failed = FALSE /\ one = <<>> /\ publog = <<>>

Init == InitMain /\ IdleKpi /\ IdleRule /\ IdleRec /\ IdleSheet

othersOfMain == <<kpiVars, ruleVars, recVars, sheetVars>>

\* lines 40-41: TrendReq is None, RuntimeError leaves main
FetchUnavailable ==
    /\ pc = "fetch_trends" /\ ~trendreq
    /\ pc' = "raised"
    /\ UNCHANGED <<terms_df, kp_csv, env, trendreq, mi, ci, results, batches,
                   weekly, out_csv, recs, recs_failed, one, publog>>
    /\ UNCHANGED othersOfMain

\* lines 43-47
FetchStart ==
    /\ pc = "fetch_trends" /\ trendreq
    /\ pc' = "chunk" /\ mi' = 1 /\ ci' = 0 /\ results' = <<>>
    /\ UNCHANGED <<terms_df, kp_csv, env, trendreq, batches,
                   weekly, out_csv, recs, recs_failed, one, publog>>
    /\ UNCHANGED othersOfMain

CurMarket == MarketGroups(terms_df)[mi]
CurTerms == TermsOfMarket(terms_df, CurMarket)
CurBatch == KwBatch(CurTerms, ci)
InChunkLoop == pc = "chunk" /\ mi <= Len(MarketGroups(terms_df))

\* the next (mi, ci) of the two for loops
Advance ==
    IF ci + ChunkSize < Len(CurTerms)
    THEN mi' = mi /\ ci' = ci + ChunkSize
    ELSE mi' = mi + 1 /\ ci' = 0

\* a plausible slip: no try/except, the exception leaves fetch_trends
OnBatchException_Propagate(next) == "raised"

\* lines 71-74: the position of main after the except block of a failed batch
OnBatchException(next) == next

LogBatch(outcome, rows) ==
    batches' = Append(batches, [market |-> CurMarket, i |-> ci, kw_batch |-> CurBatch,
                                outcome |-> outcome, rows |-> rows])

\* lines 53-70: the request succeeds with data
FetchChunkOk ==
    /\ InChunkLoop
    /\ \E p \in FetchPoints :
         LET df_long == Melt(CurMarket, CurBatch, Response(CurBatch, p))
         IN /\ results' = Append(results, df_long)
            /\ LogBatch("ok", df_long)
    /\ Advance /\ pc' = "chunk"
    /\ UNCHANGED <<terms_df, kp_csv, env, trendreq,
                   weekly, out_csv, recs, recs_failed, one, publog>>
    /\ UNCHANGED othersOfMain

\* lines 58-59: df.empty, continue
FetchChunkEmpty ==
    /\ InChunkLoop
    /\ LogBatch("empty", <<>>)
    /\ Advance /\ pc' = "chunk"
    /\ UNCHANGED <<terms_df, kp_csv, env, trendreq, results,
                   weekly, out_csv, recs, recs_failed, one, publog>>
    /\ UNCHANGED othersOfMain

\* lines 71-74: the request or the reshaping raises
FetchChunkFail ==
    /\ InChunkLoop
    /\ LogBatch("exception", <<>>)
    /\ Advance /\ pc' = OnBatchException("chunk")
    /\ UNCHANGED <<terms_df, kp_csv, env, trendreq, results,
                   weekly, out_csv, recs, recs_failed, one, publog>>
    /\ UNCHANGED othersOfMain

\* lines 76-111 and line 248: fetch_trends returns
FetchReturn ==
    /\ pc = "chunk" /\ mi > Len(MarketGroups(terms_df))
    /\ weekly' = FetchResult(results, terms_df)
    /\ pc' = "to_csv"
    /\ UNCHANGED <<terms_df, kp_csv, env, trendreq, mi, ci, results, batches,
                   out_csv, recs, recs_failed, one, publog>>
    /\ UNCHANGED othersOfMain

\* line 250: weekly.to_csv(args.out, index=False); the empty table too has the
\* nine columns (lines 77-82)
WriteCsv ==
    /\ pc = "to_csv"
    /\ out_csv' = [written |-> TRUE, header |-> WeeklyColumns, rows |-> weekly]
    /\ pc' = "pub_weekly"
    /\ UNCHANGED <<terms_df, kp_csv, env, trendreq, mi, ci, results, batches,
                   weekly, recs, recs_failed, one, publog>>
    /\ UNCHANGED othersOfMain

\* lines 17-20: the credential and a destination name or id are present
Configured(e) == e.sa_json /\ (e.sheet_name \/ e.sheet_id)

\* the three calls of _maybe_sheet_update in main: lines 254, 259, 271
PublishPcs == {"pub_weekly", "pub_recs", "pub_one"}
WorksheetAt(p) ==
    CASE p = "pub_weekly" -> "weekly_trends"
      [] p = "pub_recs" -> "recommendations"
      [] p = "pub_one" -> "one_pager"
TableAt(p) ==
    CASE p = "pub_weekly" -> weekly [] p = "pub_recs" -> recs [] p = "pub_one" -> one
AfterCall(p) ==
    CASE p = "pub_weekly" -> "build_recs"
      [] p = "pub_recs" -> "build_one"
      [] p = "pub_one" -> "done"

\* a plausible slip: no try/except around df_to_sheet
AfterPublish_Propagate(next, outcome) == IF outcome = "failed" THEN "raised" ELSE next

\* lines 20-29: _maybe_sheet_update returns normally whatever happened
AfterPublish(next, outcome) == next

Publish(outcome) ==
    /\ pc \in PublishPcs
    /\ publog' = Append(publog, [worksheet |-> WorksheetAt(pc), outcome |-> outcome,
                                 rows |-> Len(TableAt(pc))])
    /\ pc' = AfterPublish(AfterCall(pc), outcome)
    /\ UNCHANGED <<terms_df, kp_csv, env, trendreq, mi, ci, results, batches,
                   weekly, out_csv, recs, recs_failed, one>>
    /\ UNCHANGED othersOfMain

\* lines 20-22: nothing configured, the update is skipped
PublishSkip == ~Configured(env) /\ Publish("skipped")

\* lines 23-27: df_to_sheet returns
PublishOk == Configured(env) /\ Publish("ok")

\* lines 28-29: df_to_sheet raises (destination not found, auth, API error)
PublishFail == Configured(env) /\ Publish("failed")

\* line 258: build_recommendations returns
BuildRecs ==
    /\ pc = "build_recs"
    /\ recs' = BuildRecommendations(weekly, terms_df, TopNPerMarket)
    /\ pc' = "pub_recs"
    /\ UNCHANGED <<terms_df, kp_csv, env, trendreq, mi, ci, results, batches,
                   weekly, out_csv, recs_failed, one, publog>>
    /\ UNCHANGED othersOfMain

\* lines 260-262: build_recommendations raises.  On the empty weekly table the
\* KPI step takes the maximum of an empty column and compares against it;
\* whether the table library raises there is not decided by this code, so both
\* outcomes are kept.
BuildRecsRaise ==
    /\ pc = "build_recs" /\ weekly = <<>>
    /\ recs' = <<>> /\ recs_failed' = TRUE
    /\ pc' = "build_one"
    /\ UNCHANGED <<terms_df, kp_csv, env, trendreq, mi, ci, results, batches,
                   weekly, out_csv, one, publog>>
    /\ UNCHANGED othersOfMain

\* lines 266-270
BuildOne ==
    /\ pc = "build_one"
    /\ one' = IF recs # <<>> THEN BuildOnePager(weekly, recs) ELSE NoteTable
    /\ pc' = "pub_one"
    /\ UNCHANGED <<terms_df, kp_csv, env, trendreq, mi, ci, results, batches,
                   weekly, out_csv, recs, recs_failed, publog>>
    /\ UNCHANGED othersOfMain

Next ==
    \/ FetchUnavailable \/ FetchStart
    \/ FetchChunkOk \/ FetchChunkEmpty \/ FetchChunkFail \/ FetchReturn
    \/ WriteCsv
    \/ PublishSkip \/ PublishOk \/ PublishFail
    \/ BuildRecs \/ BuildRecsRaise \/ BuildOne

Spec == Init /\ [][Next]_vars

(***************************************************************************)
(* Properties of main() and fetch_trends, checked under Spec.              *)
(***************************************************************************)
FetchReturned == pc \notin {"fetch_trends", "chunk", "raised"}
WorksheetsOf(log) == [i \in 1..Len(log) |-> log[i].worksheet]
IsPrefix(a, b) == Len(a) <= Len(b) /\ SubSeq(b, 1, Len(a)) = a

\* C1: a failed (or empty) chunk never aborts fetch_trends.  With the fetch
\* capability present main never leaves through an exception; the chunks
\* attempted are, in order and each once, the chunks of at most 5 terms of every
\* market, all of them once fetch_trends has returned; and the rows of every
\* chunk that succeeded are in the accumulated result and, by key, in the
\* returned weekly table.
C1_ChunkFailureNeverAborts ==
    /\ trendreq => pc # "raised"
    /\ IsPrefix([k \in 1..Len(batches) |->
                    [market |-> batches[k].market, i |-> batches[k].i]],
                AllChunks(terms_df))
    /\ \A k \in 1..Len(batches) :
         /\ Len(batches[k].kw_batch) \in 1..ChunkSize
         /\ batches[k].outcome = "ok" =>
              \A j \in 1..Len(batches[k].rows) :
                  batches[k].rows[j] \in Range(Concat(results))
    /\ FetchReturned =>
         /\ Len(batches) = Len(AllChunks(terms_df))
         /\ \A m \in Range(MarketGroups(terms_df)) :
              Concat([k \in 1..Len(SelectIdx(batches, LAMBDA b : b.market = m)) |->
                         SelectIdx(batches, LAMBDA b : b.market = m)[k].kw_batch])
                = TermsOfMarket(terms_df, m)
         /\ \A k \in 1..Len(batches) : \A j \in 1..Len(batches[k].rows) :
              \E w \in 1..Len(weekly) :
                  /\ weekly[w].market = batches[k].rows[j].market
                  /\ weekly[w].term = batches[k].rows[j].term
                  /\ weekly[w].week_start = WeekStart(batches[k].rows[j].date)
                  /\ weekly[w].trend = batches[k].rows[j].trend

\* C1 witness: a run that ended after a chunk raised and a later chunk succeeded
C1_Witness ==
    /\ pc = "done"
    /\ \E a, b \in 1..Len(batches) :
         /\ a < b
         /\ batches[a].outcome = "exception"
         /\ batches[b].outcome = "ok"
         /\ batches[a].market = batches[b].market

AllChunksEmptyOrFailed == FetchReturned /\ results = <<>>

\* C3 as amended: when every chunk came back empty or failed, the CSV holds the
\* nine-column header and no data row, no recommendation row is built or
\* published, and the one-pager is the single fallback "Note" row, which is
\* handed to the one_pager publish.
C3_EmptyRunWritesHeaderAndNote ==
    (pc = "done" /\ AllChunksEmptyOrFailed) =>
        /\ out_csv.written /\ out_csv.header = WeeklyColumns /\ Len(out_csv.header) = 9
        /\ out_csv.rows = <<>>
        /\ recs = <<>>
        /\ Len(one) = 1 /\ one[1].section = "Note"
        /\ \A k \in 1..Len(publog) :
             /\ publog[k].worksheet = "recommendations" => publog[k].rows = 0
             /\ publog[k].worksheet = "one_pager" => publog[k].rows = 1
        /\ \E k \in 1..Len(publog) : publog[k].worksheet = "one_pager"

\* C3 as stated: ... and no one-pager row is built or published either
C3_AsStated ==
    (pc = "done" /\ AllChunksEmptyOrFailed) =>
        /\ out_csv.written /\ out_csv.header = WeeklyColumns
        /\ out_csv.rows = <<>>
        /\ recs = <<>>
        /\ one = <<>>
        /\ \A k \in 1..Len(publog) :
             publog[k].worksheet \in {"recommendations", "one_pager"}
                 => publog[k].rows = 0

\* C3 witness: a finished run whose chunks (more than one) all were empty or failed
C3_Witness ==
    /\ pc = "done" /\ AllChunksEmptyOrFailed
    /\ \E a, b \in 1..Len(batches) :
         batches[a].outcome = "exception" /\ batches[b].outcome = "empty"
    /\ \E k \in 1..Len(publog) : publog[k].outcome = "ok"

PublishOrder == <<"weekly_trends", "recommendations", "one_pager">>

\* C4: the CSV is written before any publish and stays what fetch_trends
\* returned; a publish is skipped exactly when nothing is configured; no publish
\* outcome makes main raise; and unless building the recommendations failed,
\* the three publishes are attempted in the order weekly_trends,
\* recommendations, one_pager, all three by the time main is done.
C4_PublishNeverAffectsRun ==
    /\ publog # <<>> => out_csv.written
    /\ out_csv.written => out_csv.rows = weekly /\ out_csv.header = WeeklyColumns
    /\ \A k \in 1..Len(publog) :
         (publog[k].outcome = "skipped") <=> ~Configured(env)
    /\ trendreq => pc # "raised"
    /\ ~recs_failed => IsPrefix(WorksheetsOf(publog), PublishOrder)
    /\ (pc = "done" /\ ~recs_failed) => WorksheetsOf(publog) = PublishOrder
    /\ (pc \in PublishPcs /\ ~recs_failed) =>
          Len(publog) < 3 /\ PublishOrder[Len(publog) + 1] = WorksheetAt(pc)

\* C4 witness: a finished run with data whose first publish failed and whose
\* last succeeded
C4_Witness ==
    /\ pc = "done" /\ ~recs_failed /\ weekly # <<>>
    /\ Len(publog) = 3
    /\ publog[1].outcome = "failed" /\ publog[2].outcome = "failed"
    /\ publog[3].outcome = "ok"

Metrics == {"avg_monthly_searches", "cpc_eur", "competition_index"}
MetricOf(r, m) ==
    CASE m = "avg_monthly_searches" -> r.avg_monthly_searches
      [] m = "cpc_eur" -> r.cpc_eur
      [] m = "competition_index" -> r.competition_index

\* C9 as stated: given --kp_csv, every output row matching a CSV row by term
\* (and market, when the CSV has one) carries the CSV's value of every metric
\* the CSV provides, and its pre-merge value (the null fetch_trends set) of
\* every metric the CSV leaves null.
C9_PlannerOverride ==
    (kp_csv.given /\ out_csv.written) =>
        \A i \in 1..Len(out_csv.rows) : \A c \in 1..Len(kp_csv.rows) :
            LET r == out_csv.rows[i]
                k == kp_csv.rows[c]
            IN (r.term = k.term /\ (IsNA(k.market) \/ Val(k.market) = r.market)) =>
                  \A m \in Metrics :
                      MetricOf(r, m) = IF IsNA(MetricOf(k, m)) THEN NA
                                       ELSE MetricOf(k, m)

(***************************************************************************)
(* _calc_growth_feats on its own: SpecKpi.                                 *)
(***************************************************************************)
KpiWeeks == 1..MaxWeek
\* the weekly values a term may have: none that week, or one of two levels
KpiValues == {NA, Some(20), Some(60)}

KpiRow(week, term, v) ==
    [week_start |-> 7 * week, market |-> "FI", language |-> "fi", term |-> term,
     source |-> "GoogleTrends", trend |-> v, avg_monthly_searches |-> NA,
     cpc_eur |-> NA, competition_index |-> NA, intent |-> Some("flights")]

\* the weekly table (merged with the catalog) of one term with any pattern of
\* weeks, and of a second term that has the last week only or no row at all;
\* sorted by week, market, term as fetch_trends returns it ("hotel 3" < "ruka 1")
KpiTable(a, b) ==
    Concat([w \in KpiWeeks |->
        (IF b /\ w = MaxWeek THEN <<KpiRow(w, TermText(3), Some(60))>> ELSE <<>>)
            \o (IF IsNA(a[w]) THEN <<>> ELSE <<KpiRow(w, TermText(1), a[w])>>)])

InitKpi ==
    /\ \E a \in [KpiWeeks -> KpiValues], b \in BOOLEAN :
         /\ kpi_weekly = KpiTable(a, b)
         /\ kpi_weekly # <<>>
    /\ kpi_out = [done |-> FALSE, rows |-> <<>>]

CalcKpi ==
    /\ ~kpi_out.done
    /\ kpi_out' = [done |-> TRUE, rows |-> CalcGrowthFeats(kpi_weekly)]
    /\ UNCHANGED <<kpi_weekly, mainVars, ruleVars, recVars, sheetVars>>

NextKpi == CalcKpi
InitOfKpi == InitKpi /\ IdleMain /\ IdleRule /\ IdleRec /\ IdleSheet
SpecKpi == InitOfKpi /\ [][NextKpi]_vars

KpiLatest == LatestWeek(kpi_weekly)
HasLatestRow(r) == r.week_start = KpiLatest
\* the key of r has data in the trailing / the preceding 4-week window
HasLast4Data(r) ==
    \E i \in 1..Len(kpi_weekly) :
        /\ SameKey(kpi_weekly[i], r)
        /\ kpi_weekly[i].week_start > KpiLatest - 28
NoPrev4Data(r) ==
    ~\E i \in 1..Len(kpi_weekly) :
        /\ SameKey(kpi_weekly[i], r)
        /\ kpi_weekly[i].week_start <= KpiLatest - 28
        /\ kpi_weekly[i].week_start > KpiLatest - 56
KpiRowsOf(r) == SelectIdx(kpi_out.rows, LAMBDA f : SameKey(f, r))

RuleTerms ==
    { <<"l", "e", "n", "t", "o", " ", "k", "u", "u", "s", "a", "m", "o", "o", "n">>,
      <<"R", "u", "k", "a", " ", "F", "l", "i", "g", "h", "t", "s">>,
      <<"F", "L", "Ü", "G", "E">>,
      <<"f", "l", "y", "g">>,
      <<"r", "u", "k", "a", " ", "s", "k", "i">>,
      <<"h", "o", "t", "e", "l">>,
      <<"f", "l", "y">> }
RuleIntents ==
    {NA, Some("flights"), Some("accommodation"), Some("brand"), Some("family"),
     Some("seasonal"), Some("activity"), Some("generic"), Some("Flights")}
RuleMarkets == {"FI", "SE", "DE", "GB", "NO"}

InitRules ==
    /\ rule_row \in [term : RuleTerms, intent : RuleIntents, market : RuleMarkets]
    /\ rule_out = [done |-> FALSE, result |-> DefaultSet]

ApplyRules ==
    /\ ~rule_out.done
    /\ rule_out' = [done |-> TRUE, result |-> ChannelRules(rule_row)]
    /\ UNCHANGED <<rule_row, mainVars, kpiVars, recVars, sheetVars>>

NextRules == ApplyRules
InitOfRules == InitRules /\ IdleMain /\ IdleKpi /\ IdleRec /\ IdleSheet
SpecRules == InitOfRules /\ [][NextRules]_vars

FlightKeywords == {KwFlight, KwLento, KwFluege, KwFlyg}
RowIntent == IF IsNA(rule_row.intent) THEN "" ELSE Val(rule_row.intent)
Matches2 ==
    \/ \E kw \in FlightKeywords : Contains(Lower(rule_row.term), kw)
    \/ RowIntent = "flights"
Matches3 == RowIntent = "accommodation" \/ RowIntent = "brand"
Matches4 == RowIntent = "family" \/ RowIntent = "seasonal" \/ RowIntent = "activity"
LastMatching ==
    IF Matches4 THEN SocialSet
    ELSE IF Matches3 THEN BrandSet
    ELSE IF Matches2 THEN FlightSet
    ELSE DefaultSet

\* C5: the funnel, audience and budget split are those of the last matching
\* rule among 1..4, the channel list is that rule's list, and rule 5 (GB, DE)
\* only appends "Pinterest (test)"; a "lento" term with intent "flights" gets
\* the flight funnel, a flight keyword with intent "family" the social-first set.
C5_LastMatchingRuleWins ==
    rule_out.done =>
        /\ rule_out.result.funnel = LastMatching.funnel
        /\ rule_out.result.audience = LastMatching.audience
        /\ rule_out.result.budget = LastMatching.budget
        /\ rule_out.result.channels =
              IF rule_row.market \in {"GB", "DE"}
              THEN LastMatching.channels \o <<"Pinterest (test)">>
              ELSE LastMatching.channels
        /\ (Contains(rule_row.term, KwLento) /\ RowIntent = "flights") =>
              rule_out.result.funnel = "Lower (intent) + Mid (consideration)"
        /\ (Matches2 /\ RowIntent = "family") =>
              /\ rule_out.result.funnel = "Upper → Mid"
              /\ rule_out.result.budget = "20% Search, 60% Social, 20% Discovery"

\* C5 witness: a flight keyword in upper case with a social intent, in a test market
C5_Witness ==
    /\ rule_out.done
    /\ Contains(Lower(rule_row.term), KwFluege) /\ ~Contains(rule_row.term, KwFluege)
    /\ RowIntent = "family" /\ rule_row.market = "DE"
    /\ rule_out.result.funnel = SocialSet.funnel

CountOf(xs, x) == Cardinality({i \in 1..Len(xs) : xs[i] = x})
RuleLists == {DefaultSet.channels, FlightSet.channels, BrandSet.channels,
              SocialSet.channels}

\* C6: the channel list never holds an entry twice; for GB and DE it holds
\* "Pinterest (test)" exactly once, and the entries that were in the list
\* before keep their order (the list without the test channel is one of the
\* rule lists); for the other markets it is one of the rule lists.
C6_ChannelsHaveNoDuplicates ==
    rule_out.done =>
        LET ch == rule_out.result.channels IN
        /\ \A i, j \in 1..Len(ch) : i # j => ch[i] # ch[j]
        /\ rule_row.market \in {"GB", "DE"} =>
              /\ CountOf(ch, "Pinterest (test)") = 1
              /\ SubSeq(ch, 1, Len(ch) - 1) \in RuleLists
        /\ rule_row.market \notin {"GB", "DE"} => ch \in RuleLists

\* C6 witness: a GB row on which two overwriting rules matched
C6_Witness ==
    /\ rule_out.done
    /\ rule_row.market = "GB" /\ Matches2 /\ Matches3
    /\ Len(rule_out.result.channels) = 4

(***************************************************************************)
(* build_recommendations and the one-pager's top opportunities on their    *)
(* own: SpecRecs.                                                          *)
(***************************************************************************)
\* the (latest, growth) a KPI row may have, in 1/120: latest 0 with growth -20
\* (score -6.0), latest 0 with growth -10 (score -3.0), latest 50 with growth 0
\* (score 35.0)
FeatKinds == {[latest |-> 0, growth |-> -2400], [latest |-> 0, growth |-> -1200],
              [latest |-> 6000, growth |-> 0]}
TopNs == {2, TopNPerMarket}

FeatRow(market, language, k, kind) ==
    [market |-> market, language |-> language, term |-> TermText(k),
     intent |-> Some(IntentCycle[(k % Len(IntentCycle)) + 1]),
     latest |-> Some(kind.latest), last4 |-> Some(kind.latest),
     prev4 |-> Some(kind.latest - kind.growth), growth_vs_prev4 |-> kind.growth,
     score |-> ScoreOf(Some(kind.latest), kind.growth), week_start |-> 63]

\* a KPI table as _calc_growth_feats returns it: one row per (market, term),
\* sorted by market and term
FeatTable(nDE, kinds) ==
    StableSort([i \in 1..Len(kinds) |->
                   IF i <= nDE THEN FeatRow("DE", "de", i, kinds[i])
                   ELSE FeatRow("FI", "fi", i - nDE, kinds[i])],
               KpiRowLess)

InitRecs ==
    /\ \E n \in 1..MaxFeats : \E nDE \in 0..n : \E kinds \in [1..n -> FeatKinds] :
         feats = FeatTable(nDE, kinds)
    /\ top_n \in TopNs
    /\ rec_out = <<>> /\ top_ops = <<>> /\ rpc = "start"

\* lines 178-199
SelectAndBuild ==
    /\ rpc = "start"
    /\ rec_out' = RecsOfFeats(feats, top_n)
    /\ rpc' = "recs"
    /\ UNCHANGED <<feats, top_n, top_ops, mainVars, kpiVars, ruleVars, sheetVars>>

\* lines 205-207, reached in main when the recommendations are not empty
OnePagerTop ==
    /\ rpc = "recs" /\ rec_out # <<>>
    /\ top_ops' = TopOpportunities(rec_out)
    /\ rpc' = "one"
    /\ UNCHANGED <<feats, top_n, rec_out, mainVars, kpiVars, ruleVars, sheetVars>>

NextRecs == SelectAndBuild \/ OnePagerTop
InitOfRecs == InitRecs /\ IdleMain /\ IdleKpi /\ IdleRule /\ IdleSheet
SpecRecs == InitOfRecs /\ [][NextRecs]_vars

FeatsOfMarket(m) == {i \in 1..Len(feats) : feats[i].market = m}
RecsOfMarket(m) == {i \in 1..Len(rec_out) : rec_out[i].market = m}
\* the KPI row a recommendation row was built from
FeatOf(r) == feats[CHOOSE i \in 1..Len(feats) : SameKey(feats[i], r)]
IsSelected(f) == \E i \in 1..Len(rec_out) : SameKey(rec_out[i], f)

\* C7: every market contributes min(N, its KPI rows) recommendation rows, no
\* unselected KPI row of a market scores strictly higher than a selected row of
\* that market, and the rows are ordered by market ascending, then by score
\* descending.
C7_TopNPerMarket ==
    rpc # "start" =>
        /\ \A m \in {"DE", "FI"} :
             Cardinality(RecsOfMarket(m)) = Min2(top_n, Cardinality(FeatsOfMarket(m)))
        /\ \A i \in 1..Len(feats) : \A j \in 1..Len(rec_out) :
             (~IsSelected(feats[i]) /\ feats[i].market = rec_out[j].market)
                 => feats[i].score <= FeatOf(rec_out[j]).score
        /\ \A j \in 1..(Len(rec_out) - 1) :
             \/ CodeLess(rec_out[j].market, rec_out[j + 1].market)
             \/ /\ rec_out[j].market = rec_out[j + 1].market
                /\ FeatOf(rec_out[j]).score >= FeatOf(rec_out[j + 1]).score

\* C7 witness: a market with more KPI rows than N, of different scores, some
\* left out, next to a market with fewer rows than N
C7_Witness ==
    /\ rpc = "recs"
    /\ Cardinality(FeatsOfMarket("FI")) > top_n
    /\ Cardinality(FeatsOfMarket("DE")) \in 1..(top_n - 1)
    /\ \E i, j \in FeatsOfMarket("FI") :
         /\ ~IsSelected(feats[i]) /\ IsSelected(feats[j])
         /\ feats[i].score < feats[j].score

\* the score as build_recommendations wrote it into why_now, sign included
WrittenScore(r) ==
    LET cs == r.why_now.score
    IN IF cs[1] = "-" THEN 0 - ParseTenths(Tail(cs)) ELSE ParseTenths(cs)
ListedIdx == {top_ops[k].idx : k \in 1..Len(top_ops)}

\* C8 as stated: the top opportunities are min(5, rows) recommendation rows, and
\* no row left out has a strictly higher written score than a listed row.
C8_TopFiveByScore ==
    rpc = "one" =>
        /\ Len(top_ops) = Min2(5, Len(rec_out))
        /\ \A i \in 1..Len(rec_out) : \A j \in ListedIdx :
             i \notin ListedIdx => WrittenScore(rec_out[i]) <= WrittenScore(rec_out[j])

(***************************************************************************)
(* update_sheet.df_to_sheet, two runs publishing to one worksheet:         *)
(* SpecSheet.  Every call to the spreadsheet service is one step.          *)
(***************************************************************************)
Runs == {1, 2}
SheetColumns == << <<"w", "e", "e", "k">>, <<"i", "n", "t", "e", "r", "e", "s", "t">> >>
CellValues == {7, 12}

\* a table of n data rows, row i holding week i and an interest value
SheetTable(vals) ==
    [columns |-> SheetColumns, rows |-> [i \in 1..Len(vals) |-> <<i, vals[i]>>]]
SheetTables == UNION {{SheetTable(v) : v \in [1..n -> CellValues]} : n \in 0..MaxSheetRows}
\* what an earlier, longer publish left on the worksheet
OldTable == SheetTable([i \in 1..(MaxSheetRows + 1) |-> 99])

\* str() of a non-negative integer cell
Str(v) == Digits(v)
\* line 26: [df.columns.tolist()] + df.astype(str).values.tolist()
Values(df) ==
    <<df.columns>> \o [i \in 1..Len(df.rows) |->
                          [c \in 1..Len(df.rows[i]) |-> Str(df.rows[i][c])]]

WsClear_Keep(ws) == ws

\* ws.clear(): every value of the worksheet is removed
WsClear(ws) == [ws EXCEPT !.rows = <<>>]
\* sh.add_worksheet: a new, empty worksheet
NewWorksheet == [exists |-> TRUE, rows |-> <<>>]
\* ws.update(values): the block starting at A1 is overwritten, the rows below
\* it keep their values
WsUpdate(ws, values) ==
    LET n == IF Len(values) > Len(ws.rows) THEN Len(values) ELSE Len(ws.rows)
    IN [ws EXCEPT !.rows = [i \in 1..n |-> IF i <= Len(values) THEN values[i]
                                           ELSE ws.rows[i]]]

InitSheet ==
    /\ sheet \in {[exists |-> FALSE, rows |-> <<>>], NewWorksheet,
                  [exists |-> TRUE, rows |-> Values(OldTable)]}
    /\ run \in [Runs -> {[pc |-> "start", df |-> d] : d \in SheetTables}]

othersOfSheet == <<mainVars, kpiVars, ruleVars, recVars>>

\* line 21: sh.worksheet(worksheet) returns the worksheet or raises
\* WorksheetNotFound
Worksheet(r) ==
    /\ run[r].pc = "start"
    /\ run' = [run EXCEPT ![r].pc = IF sheet.exists THEN "found" ELSE "notfound"]
    /\ UNCHANGED <<sheet, othersOfSheet>>

\* line 22
Clear(r) ==
    /\ run[r].pc = "found"
    /\ sheet' = WsClear(sheet)
    /\ run' = [run EXCEPT ![r].pc = "ready"]
    /\ UNCHANGED othersOfSheet

\* line 24: the service refuses a second worksheet of the same title, and that
\* error leaves df_to_sheet
AddWorksheet(r) ==
    /\ run[r].pc = "notfound"
    /\ IF sheet.exists
       THEN run' = [run EXCEPT ![r].pc = "raised"] /\ UNCHANGED sheet
       ELSE run' = [run EXCEPT ![r].pc = "ready"] /\ sheet' = NewWorksheet
    /\ UNCHANGED othersOfSheet

\* line 26
Update(r) ==
    /\ run[r].pc = "ready"
    /\ sheet' = WsUpdate(sheet, Values(run[r].df))
    /\ run' = [run EXCEPT ![r].pc = "done"]
    /\ UNCHANGED othersOfSheet

NextSheet == \E r \in Runs : Worksheet(r) \/ Clear(r) \/ AddWorksheet(r) \/ Update(r)
InitOfSheet == InitSheet /\ IdleMain /\ IdleKpi /\ IdleRule /\ IdleRec
SpecSheet == InitOfSheet /\ [][NextSheet]_vars

\* C10: a run that went through df_to_sheet while the other run had not made
\* any call leaves the worksheet existing and holding exactly its header row
\* plus its string-coerced data rows, whatever the worksheet held before.
C10_SingleRunLeavesItsTable ==
    \A r \in Runs : \A o \in Runs \ {r} :
        run[o].pc = "start" =>
            /\ run[r].pc \notin {"raised"}
            /\ run[r].pc = "done" =>
                 /\ sheet.exists
                 /\ sheet.rows = Values(run[r].df)
                 /\ Len(sheet.rows) = Len(run[r].df.rows) + 1

\* C10 witness: two runs publishing different tables both finished, and the
\* worksheet equals neither table: the rows of the longer table remain below
\* the shorter one
C10_Witness ==
    /\ \A r \in Runs : run[r].pc = "done"
    /\ run[1].df # run[2].df
    /\ \A r \in Runs : sheet.rows # Values(run[r].df)
    /\ \E r \in Runs : \E o \in Runs \ {r} :
         /\ Len(run[r].df.rows) < Len(run[o].df.rows)
         /\ SubSeq(sheet.rows, 1, Len(run[r].df.rows) + 1) = Values(run[r].df)
         /\ Len(sheet.rows) = Len(run[o].df.rows) + 1
         /\ sheet.rows[Len(sheet.rows)] = Values(run[o].df)[Len(sheet.rows)]

====
